---------------------------- MODULE Spec2Model ----------------------------
(***************************************************************************)
(* A model of tsdat's DatasetDefinition (src/tsdat/config/                 *)
(* dataset_definition.py): the constructor, phase by phase, the validation *)
(* cascade, extract_data, add_input_files_attr and to_dict; and of         *)
(* Storage.uploadable_dir (src/tsdat/io/base.py).  Strings are sequences   *)
(* of one-character strings so that formatting, concatenation and the      *)
(* character checks are computed, not assumed.                             *)
(***************************************************************************)
EXTENDS Naturals, Sequences, FiniteSets

VARIABLES
    cfg,         \* the constructor's inputs: dictionary and pipeline_type
    pc,          \* position in __init__, "done" once it returned, "raised"
    attrs,       \* self.attrs : name -> AttributeDefinition
    datastream,  \* self.datastream
    dims,        \* self.dims : the dimension names in declaration order
    vars,        \* self.vars : name -> VariableDefinition
    coords,      \* self.coords : name -> VariableDefinition
    data,        \* VariableDefinition.data of every parsed variable
    warns,       \* the warnings emitted so far
    err,         \* the exception that left the last call, NoErr if none
    last,        \* the last call on the constructed instance
    steps,       \* the phases of __init__ that ran to completion, in order
    upload       \* Storage.uploadable_dir: the context manager and its directory

vars_all == <<cfg, pc, attrs, datastream, dims, vars, coords, data, warns, err, last, steps, upload>>

----------------------------------------------------------------------------
(* Bounds *)

\* how many attributes of the configuration differ from the reference one
MaxDev == 2
\* the longest raw input field
MaxLen == 2
\* the longest data level handed to the format check
MaxLevelLen == 3
\* the longest list of input files handed to add_input_files_attr
MaxFiles == 2

----------------------------------------------------------------------------
(* Values: None and str *)

Null == [k |-> "null", s |-> <<>>]

Str(chars) == [k |-> "str", s |-> chars]

Empty == Str(<<>>)

\* bool(value): None and "" are falsy
Truthy(v) == v.k = "str" /\ v.s # <<>>

\* str.format of a value inside an f-string: None prints as "None"
Format(v) == IF v.k = "null" THEN <<"N", "o", "n", "e">> ELSE v.s

\* "." in value
HasDot(chars) == \E i \in 1..Len(chars) : chars[i] = "."

Alpha == {"a", "b", "c", "d", "h", "l", "m", "o", "t", "u", "y", "q", "x", "N", "e", "n"}

Numeric == {"0", "1"}

\* str.isalpha / str.isnumeric of one character
IsAlpha(c) == c \in Alpha

IsNumeric(c) == c \in Numeric

S_b1 == <<"b", "1">>

S_c1 == <<"c", "1">>

S_00 == <<"0", "0">>

S_1b == <<"1", "b">>

S_abc == <<"a", "b", "c">>

S_humboldt == <<"h", "u", "m", "b", "o", "l", "d", "t">>

S_buoy == <<"b", "u", "o", "y">>

S_dotted == <<"a", ".", "b">>

S_q == <<"q">>

\* the text _generate_history produces; the clock is outside the model
S_history == <<"R", "a", "n">>

----------------------------------------------------------------------------
(* Value holders: attribute_defintion.py, variable_definition.py *)

AttributeDefinition(name, value) == [name |-> name, value |-> value]

\* dict.get(key, default)
Get(map, key, default) == IF key \in DOMAIN map THEN map[key] ELSE default

\* dict[key] = value
Put(map, key, value) == [k \in (DOMAIN map) \cup {key} |-> IF k = key THEN value ELSE map[k]]

EmptyMap == [k \in {} |-> Null]

\* an exception: its class and the identifiers its message carries
Error(kind, msg, names) == [kind |-> kind, msg |-> msg, names |-> names]

NoErr == Error("none", "", {})

\* what an operation hands back: a value, or the exception that leaves it
Ok(val) == [err |-> NoErr, val |-> val]

Raise(e) == [err |-> e, val |-> <<>>]

IsOk(r) == r.err = NoErr

----------------------------------------------------------------------------
(* The configurations the constructor is run on *)

RequiredAttrs == <<"title", "description", "conventions", "history", "code_url",
                   "location_id", "instrument_id", "datastream", "data_level">>

DatastreamComponents == <<"location_id", "instrument_id", "qualifier", "temporal", "data_level">>

Range(seq) == {seq[i] : i \in 1..Len(seq)}

AttrNames == Range(RequiredAttrs) \cup Range(DatastreamComponents)

\* pipeline_type: the two tags, another string, the empty string, None
NonePipeline == "<None>"

PipelineTypes == {"Ingest", "VAP", "Other", "", NonePipeline}

\* the global attributes of a configuration that gives all nine required ones
BaseAttrs ==
    [n \in Range(RequiredAttrs) |->
        CASE n = "location_id" -> Str(S_humboldt)
          [] n = "instrument_id" -> Str(S_buoy)
          [] n = "data_level" -> Str(S_b1)
          [] OTHER -> Str(<<"t">>)]

Absent == [k |-> "absent", s |-> <<>>]

\* the values an attribute of the configuration is given besides its reference
\* value: left out, None, "", a text with a dot, a malformed data level
AttrValues(n) ==
    CASE n \in {"title", "description", "conventions", "code_url", "history"} -> {Absent, Null, Empty}
      [] n \in {"location_id", "instrument_id"} -> {Absent, Null, Empty, Str(S_dotted)}
      [] n \in {"qualifier", "temporal"} -> {Null, Empty, Str(S_q), Str(S_dotted)}
      [] n = "datastream" -> {Absent, Empty, Str(S_dotted)}
      [] OTHER -> {Absent, Null, Str(S_00), Str(S_1b), Str(S_abc)}

AllAttrValues == UNION {AttrValues(n) : n \in AttrNames}

\* BaseAttrs with the attributes of D given the values of f
Override(D, f) ==
    LET present == {n \in (DOMAIN BaseAttrs \cup D) : n \in D => f[n] # Absent}
    IN  [n \in present |-> IF n \in D THEN f[n] ELSE BaseAttrs[n]]

\* the attribute sections that differ from BaseAttrs in at most MaxDev names
AttrConfigs ==
    UNION {{Override(D, f) : f \in {g \in [D -> AllAttrValues] : \A n \in D : g[n] \in AttrValues(n)}}
            : D \in {X \in SUBSET AttrNames : Cardinality(X) <= MaxDev}}

DimNames == {"time", "depth"}

VarNames == {"time", "depth", "temp"}

\* the dimensions block: missing, or the dimension names in declaration order
DimConfigs ==
    {[present |-> FALSE, names |-> <<>>]}
        \cup {[present |-> TRUE, names |-> d] :
                d \in {<<>>, <<"time">>, <<"depth">>, <<"time", "depth">>, <<"depth", "time">>}}

\* the dims a variable is declared with
VarShapes == {<<>>, <<"time">>, <<"depth">>, <<"time", "depth">>}

Provenances == {"Predefined", "Derived", "InputMapped"}

VarDicts == [dims : VarShapes, prov : Provenances]

\* a valid structure: time and depth coordinates, one two-dimensional data variable
BaseDims == [present |-> TRUE, names |-> <<"time", "depth">>]

BaseDecl ==
    [v \in VarNames |->
        CASE v = "time" -> [dims |-> <<"time">>, prov |-> "InputMapped"]
          [] v = "depth" -> [dims |-> <<"depth">>, prov |-> "Predefined"]
          [] OTHER -> [dims |-> <<"time", "depth">>, prov |-> "Derived"]]

VarsBlock(decl) == [present |-> TRUE, decl |-> decl]

MissingVars == [present |-> FALSE, decl |-> EmptyMap]

Without(decl, v) == [w \in (DOMAIN decl) \ {v} |-> decl[w]]

\* the variables blocks one change away from BaseDecl: one variable left out
\* or declared otherwise
OneChangeVars ==
    {VarsBlock(Without(BaseDecl, v)) : v \in VarNames}
        \cup {VarsBlock([BaseDecl EXCEPT ![v] = d]) : v \in VarNames, d \in VarDicts}

\* two derived data variables over the time coordinate
TwoDerived ==
    <<[present |-> TRUE, names |-> <<"time">>],
      VarsBlock([BaseDecl EXCEPT !["depth"] = [dims |-> <<"time">>, prov |-> "Derived"],
                                 !["temp"] = [dims |-> <<"time">>, prov |-> "Derived"]])>>

\* the structures: BaseDims with the blocks one change away, every dimensions
\* block with the reference variables, and what a schema without time, without
\* coordinates or without a variables block looks like
Structures ==
    {<<BaseDims, vs>> : vs \in OneChangeVars}
        \cup {<<ds, VarsBlock(BaseDecl)>> : ds \in DimConfigs}
        \cup {<<BaseDims, MissingVars>>,
              <<[present |-> TRUE, names |-> <<"depth">>], VarsBlock(Without(Without(BaseDecl, "time"), "temp"))>>,
              <<[present |-> TRUE, names |-> <<"time">>], VarsBlock(Without(Without(BaseDecl, "depth"), "temp"))>>,
              <<BaseDims, VarsBlock([BaseDecl EXCEPT !["depth"] = [dims |-> <<"time">>, prov |-> "Derived"],
                                                     !["time"] = [dims |-> <<"time">>, prov |-> "Predefined"]])>>,
              <<BaseDims, VarsBlock(EmptyMap)>>}

\* the smallest valid structure: the time dimension and its coordinate
MinimalStructure ==
    <<[present |-> TRUE, names |-> <<"time">>],
      VarsBlock([v \in {"time"} |-> [dims |-> <<"time">>, prov |-> "Predefined"]])>>

\* structures run with every attribute configuration: valid, without a time
\* dimension, without a time coordinate
FewStructures ==
    {MinimalStructure,
     <<[present |-> TRUE, names |-> <<"depth">>], VarsBlock(Without(Without(BaseDecl, "time"), "temp"))>>,
     <<BaseDims, VarsBlock(Without(BaseDecl, "time"))>>}

\* attribute configurations run with every pipeline type
FewAttrConfigs ==
    {BaseAttrs,
     Override({"qualifier", "temporal"}, [n \in {"qualifier", "temporal"} |-> Str(S_q)])}

Config(a, p, s) == [attrs |-> a, pipeline_type |-> p, dims |-> s[1], vars |-> s[2]]

Configs ==
    {Config(a, "Ingest", s) : a \in AttrConfigs, s \in FewStructures}
        \cup {Config(a, p, s) : a \in FewAttrConfigs, p \in PipelineTypes, s \in FewStructures}
        \cup {Config(BaseAttrs, "Ingest", s) : s \in Structures}

----------------------------------------------------------------------------
(* Arrays: numpy.ndarray reduced to shape, dtype and the flat values *)

Array(shape, dtype, vals) == [shape |-> shape, dtype |-> dtype, vals |-> vals]

\* VariableDefinition.data before anything was stored in it
Unset == Array(<<0>>, "unset", <<>>)

RECURSIVE Prod(_)
Prod(shape) == IF shape = <<>> THEN 1 ELSE Head(shape) * Prod(Tail(shape))

\* np.array(data, dtype=dtype)
NpArray(arr, dtype) == Array(arr.shape, dtype, arr.vals)

\* np.full(shape, fill, dtype=dtype)
NpFull(shape, fill, dtype) == Array(shape, dtype, [i \in 1..Prod(shape) |-> fill])

\* the literal a Predefined variable is declared with
Literal == Array(<<2>>, "list", <<10, 20>>)

\* the declared type, fill value, input field and units of a variable
DataTypeOf(name) == IF name = "time" THEN "long" ELSE "float"

FillValueOf(name) == 9999

InputNameOf(name) == CASE name = "time" -> "ts" [] name = "depth" -> "z" [] OTHER -> "T"

InputUnitsOf(name) == IF name = "temp" THEN "degF" ELSE "m"

OutputUnitsOf(name) == IF name = "temp" THEN "degC" ELSE "m"

FieldNames == {"ts", "z", "T"}

\* a raw dataset: some fields, each as long as the dataset
RawDatasets ==
    UNION {{[f \in F |-> Array(<<n>>, "float", [i \in 1..n |-> i])] : n \in 1..MaxLen}
            : F \in {{"z"}, FieldNames}}

\* converter.run(data, in_units, out_units) when it succeeds: the identity
\* between equal units, a shift of every value otherwise
ConverterRun(arr, in_units, out_units) ==
    IF in_units = out_units THEN arr
    ELSE Array(arr.shape, arr.dtype, [i \in 1..Len(arr.vals) |-> arr.vals[i] + 32])

\* VariableDefinition(name, var_dict, available_dimensions)
VariableDefinition(name, var_dict) ==
    [name |-> name, dims |-> var_dict.dims, prov |-> var_dict.prov,
     input |-> [name |-> InputNameOf(name), units |-> InputUnitsOf(name)],
     units |-> OutputUnitsOf(name), dtype |-> DataTypeOf(name), fill |-> FillValueOf(name)]

is_coordinate(var) == Len(var.dims) = 1 /\ var.dims[1] = var.name

is_predefined(var) == var.prov = "Predefined"

is_derived(var) == var.prov = "Derived"

has_input(var) == var.prov = "InputMapped"

get_coordinate_names(var) == var.dims

(* DatasetDefinition.__init__, phase by phase *)

\* _parse_data_level falling back to a level instead of raising
Mut_parse_data_level(pipeline_type) ==
    Ok(AttributeDefinition("data_level", IF pipeline_type = "Ingest" THEN Str(S_b1) ELSE Str(S_c1)))

_parse_data_level(pipeline_type) ==
    LET data_level == CASE pipeline_type = "Ingest" -> Str(S_b1)
                         [] pipeline_type = "VAP" -> Str(S_c1)
                         [] OTHER -> Null
    IN  IF ~Truthy(data_level)
        THEN Raise(Error("DefinitionError", "not a valid pipeline type", {pipeline_type}))
        ELSE Ok(AttributeDefinition("data_level", data_level))

\* _parse_attributes keeping the data_level the configuration gives
Mut_parse_attributes(dictionary, pipeline_type) ==
    LET attributes == [n \in DOMAIN dictionary.attrs |-> AttributeDefinition(n, dictionary.attrs[n])]
        data_level == _parse_data_level(pipeline_type)
    IN  IF IsOk(data_level)
        THEN Ok(IF "data_level" \in DOMAIN attributes THEN attributes
                ELSE Put(attributes, "data_level", data_level.val))
        ELSE Raise(data_level.err)

_parse_attributes(dictionary, pipeline_type) ==
    LET attributes == [n \in DOMAIN dictionary.attrs |-> AttributeDefinition(n, dictionary.attrs[n])]
        data_level == _parse_data_level(pipeline_type)
    IN  IF IsOk(data_level) THEN Ok(Put(attributes, "data_level", data_level.val))
        ELSE Raise(data_level.err)

_generate_history == AttributeDefinition("history", Str(S_history))

\* self.attrs.get(name).value fails on None when the attribute is missing
_generate_datastream(self_attrs) ==
    IF "location_id" \notin DOMAIN self_attrs \/ "instrument_id" \notin DOMAIN self_attrs
    THEN Raise(Error("AttributeError", "NoneType has no attribute value", {}))
    ELSE LET loc_id == self_attrs["location_id"].value
             instr_id == self_attrs["instrument_id"].value
             qualifier == Get(self_attrs, "qualifier", AttributeDefinition("", Empty)).value
             temporal == Get(self_attrs, "temporal", AttributeDefinition("", Empty)).value
             data_level == self_attrs["data_level"].value
         IN  Ok(AttributeDefinition("datastream",
                Str(Format(loc_id) \o <<".">> \o Format(instr_id) \o Format(qualifier)
                    \o Format(temporal) \o <<".">> \o Format(data_level))))

\* _add_autogenerated_attributes keeping a datastream the configuration gave
Mut_add_autogenerated_attributes(self_attrs) ==
    LET ds == _generate_datastream(self_attrs)
    IN  IF IsOk(ds)
        THEN Ok(Put(Put(self_attrs, "history", _generate_history), "datastream",
                    Get(self_attrs, "datastream", ds.val)))
        ELSE Raise(ds.err)

_add_autogenerated_attributes(self_attrs) ==
    LET ds == _generate_datastream(self_attrs)
    IN  IF IsOk(ds)
        THEN Ok(Put(Put(self_attrs, "history", _generate_history), "datastream", ds.val))
        ELSE Raise(ds.err)

_parse_dimensions(dictionary) ==
    IF ~dictionary.dims.present THEN Raise(Error("KeyError", "dimensions", {}))
    ELSE Ok(dictionary.dims.names)

\* the variables whose declaration the VariableDefinition constructor rejects
UndeclaredDimVars(decl, available_dimensions) ==
    {v \in DOMAIN decl : ~(Range(decl[v].dims) \subseteq Range(available_dimensions))}

\* the data a variable holds when constructed
InitialData(var_dict) == IF var_dict.prov = "Predefined" THEN Literal ELSE Unset

_parse_variables(dictionary, available_dimensions, bad) ==
    IF ~dictionary.vars.present THEN Raise(Error("KeyError", "variables", {}))
    ELSE IF bad \in UndeclaredDimVars(dictionary.vars.decl, available_dimensions)
    THEN Raise(Error("DefinitionError", "undeclared dimension", {bad}))
    ELSE Ok([v \in DOMAIN dictionary.vars.decl |-> VariableDefinition(v, dictionary.vars.decl[v])])

_parse_coordinates_coords(vs) == [n \in {m \in DOMAIN vs : is_coordinate(vs[m])} |-> vs[n]]

\* _parse_coordinates leaving the coordinates among the data variables
Mut_parse_coordinates_vars(vs) == vs

_parse_coordinates_vars(vs) == [n \in {m \in DOMAIN vs : ~is_coordinate(vs[m])} |-> vs[n]]

(* The validation cascade.  A failed assert raises AssertionError, with the *)
(* DefinitionError instance as its argument.                                *)

AssertionError(msg, names) == Error("AssertionError", msg, names)

_error_check_time_definition(self_dims, self_coords) ==
    IF "time" \notin Range(self_dims)
    THEN AssertionError("'time' must be defined as a dimension", {"time"})
    ELSE IF "time" \notin DOMAIN self_coords
    THEN AssertionError("'time' must be defined as a coordinate variable", {"time"})
    ELSE NoErr

Warning(msg, name) == [msg |-> msg, name |-> name]

\* the dimension check with its test inverted: it warns for the dimensions
\* that have a coordinate variable
RECURSIVE Mut_warn_check_dimension_definitions(_, _)
Mut_warn_check_dimension_definitions(self_dims, self_coords) ==
    IF self_dims = <<>> THEN <<>>
    ELSE (IF Head(self_dims) \in DOMAIN self_coords
          THEN <<Warning("no associated coordinate variable", Head(self_dims))>>
          ELSE <<>>)
         \o Mut_warn_check_dimension_definitions(Tail(self_dims), self_coords)

\* one warning for every dimension without a coordinate variable, in dims order
RECURSIVE _warn_check_dimension_definitions(_, _)
_warn_check_dimension_definitions(self_dims, self_coords) ==
    IF self_dims = <<>> THEN <<>>
    ELSE (IF Head(self_dims) \notin DOMAIN self_coords
          THEN <<Warning("no associated coordinate variable", Head(self_dims))>>
          ELSE <<>>)
         \o _warn_check_dimension_definitions(Tail(self_dims), self_coords)

_error_check_coordinate_definitions(self_dims, self_coords) ==
    IF \E c \in DOMAIN self_coords : Len(self_coords[c].dims) # 1
    THEN AssertionError("must have exactly one dimension",
                        {c \in DOMAIN self_coords : Len(self_coords[c].dims) # 1})
    ELSE IF \E c \in DOMAIN self_coords : c \notin Range(self_dims)
    THEN AssertionError("must be dimensioned by itself",
                        {c \in DOMAIN self_coords : c \notin Range(self_dims)})
    ELSE NoErr

\* the required-attribute check testing only that the name is there
Mut_error_check_required_global_attrs(self_attrs, required_attrs) ==
    IF \E i \in 1..Len(required_attrs) : required_attrs[i] \notin DOMAIN self_attrs
    THEN AssertionError("is a required global attribute", {})
    ELSE NoErr

\* the first required attribute, in list order, that is missing, None or ""
RECURSIVE _error_check_required_global_attrs(_, _)
_error_check_required_global_attrs(self_attrs, required_attrs) ==
    IF required_attrs = <<>> THEN NoErr
    ELSE LET attr_name == Head(required_attrs)
             attr_value == Get(self_attrs, attr_name, AttributeDefinition("", Null)).value
         IN  IF ~Truthy(attr_value)
             THEN AssertionError("is a required global attribute", {attr_name})
             ELSE _error_check_required_global_attrs(self_attrs, Tail(required_attrs))

\* the first datastream component, in list order, that holds a "."
RECURSIVE DotCheck(_, _)
DotCheck(self_attrs, components) ==
    IF components = <<>> THEN NoErr
    ELSE LET attr_name == Head(components)
             attr_value == Get(self_attrs, attr_name, AttributeDefinition("", Null)).value
         IN  IF Truthy(attr_value) /\ HasDot(attr_value.s)
             THEN AssertionError("'.' is not an allowed character", {attr_name})
             ELSE DotCheck(self_attrs, Tail(components))

\* the data-level format check without the "00" exception
Mut_DataLevelCheck(self_attrs) ==
    LET data_level == self_attrs["data_level"].value
    IN  IF data_level.k # "str" \/ Len(data_level.s) # 2
             \/ ~IsAlpha(data_level.s[1]) \/ ~IsNumeric(data_level.s[2])
        THEN [err |-> AssertionError("Data level is malformed", {}), warns |-> <<>>]
        ELSE [err |-> NoErr, warns |-> <<>>]

\* the data-level format check: the error, and the warning for "00"
DataLevelCheck(self_attrs) ==
    IF "data_level" \notin DOMAIN self_attrs
    THEN [err |-> Error("AttributeError", "NoneType has no attribute value", {}), warns |-> <<>>]
    ELSE LET data_level == self_attrs["data_level"].value
         IN  IF data_level.k # "str"
             THEN [err |-> AssertionError("Data level must be a string", {}), warns |-> <<>>]
             ELSE IF Len(data_level.s) # 2
             THEN [err |-> AssertionError("Data level must consist of two characters", {}), warns |-> <<>>]
             ELSE IF data_level.s # S_00
             THEN IF ~IsAlpha(data_level.s[1])
                  THEN [err |-> AssertionError("Data level first character must be a letter", {}), warns |-> <<>>]
                  ELSE IF ~IsNumeric(data_level.s[2])
                  THEN [err |-> AssertionError("Data level second character must be a number", {}), warns |-> <<>>]
                  ELSE [err |-> NoErr, warns |-> <<>>]
             ELSE [err |-> NoErr, warns |-> <<Warning("Data level chosen is 00", "data_level")>>]

_error_check_datastream_name_components(self_attrs) ==
    LET dots == DotCheck(self_attrs, DatastreamComponents)
    IN  IF dots # NoErr THEN [err |-> dots, warns |-> <<>>] ELSE DataLevelCheck(self_attrs)

\* the cascade: the first error in the fixed order, and the warnings emitted
\* before it
_validate_dataset_definition(self_attrs, self_dims, self_coords) ==
    LET time == _error_check_time_definition(self_dims, self_coords)
        dimw == _warn_check_dimension_definitions(self_dims, self_coords)
        coord == _error_check_coordinate_definitions(self_dims, self_coords)
        required == _error_check_required_global_attrs(self_attrs, RequiredAttrs)
        components == _error_check_datastream_name_components(self_attrs)
    IN  IF time # NoErr THEN [err |-> time, warns |-> <<>>]
        ELSE IF coord # NoErr THEN [err |-> coord, warns |-> dimw]
        ELSE IF required # NoErr THEN [err |-> required, warns |-> dimw]
        ELSE [err |-> components.err, warns |-> dimw \o components.warns]

----------------------------------------------------------------------------
(* Queries and extract_data *)

get_variable_names(self_vars) == DOMAIN self_vars

\* None when neither map holds the name
NoVariable == [name |-> "<None>"]

get_variable(self_vars, self_coords, variable_name) ==
    IF variable_name \in DOMAIN self_vars THEN self_vars[variable_name]
    ELSE Get(self_coords, variable_name, NoVariable)

\* VariableDefinition.get_shape of a coordinate: the shape of its data; data
\* never stored either has no shape (bare = "raises") or is empty
get_shape(arr, bare) ==
    IF arr = Unset /\ bare = "raises"
    THEN Raise(Error("AttributeError", "no attribute shape", {}))
    ELSE Ok(arr.shape)

\* get_variable_shape listing the coordinate lengths last dim first
Mut_get_variable_shape(self_coords, self_data, variable, bare) ==
    LET coordinate_names == get_coordinate_names(variable)
        n == Len(coordinate_names)
        fails(i) == \/ coordinate_names[i] \notin DOMAIN self_coords
                    \/ ~IsOk(get_shape(self_data[coordinate_names[i]], bare))
    IN  IF \E i \in 1..n : fails(i)
        THEN Raise(Error("AttributeError", "no coordinate shape", {}))
        ELSE Ok([i \in 1..n |-> get_shape(self_data[coordinate_names[n + 1 - i]], bare).val[1]])

\* the lengths of the coordinates of the variable's dims, in order; a dim
\* without a coordinate gives None, and None has no get_shape
get_variable_shape(self_coords, self_data, variable, bare) ==
    LET coordinate_names == get_coordinate_names(variable)
        fails(i) == \/ coordinate_names[i] \notin DOMAIN self_coords
                    \/ ~IsOk(get_shape(self_data[coordinate_names[i]], bare))
    IN  IF \E i \in 1..Len(coordinate_names) : fails(i)
        THEN Raise(Error("AttributeError", "no coordinate shape", {}))
        ELSE Ok([i \in 1..Len(coordinate_names) |->
                    get_shape(self_data[coordinate_names[i]], bare).val[1]])

\* extract_data storing the raw field as it is, without the conversion
Mut_extract_data_unconverted(self_coords, self_data, variable, raw_dataset, converts, bare) ==
    IF is_predefined(variable)
    THEN Ok(NpArray(self_data[variable.name], variable.dtype))
    ELSE IF is_derived(variable)
    THEN IF is_coordinate(variable)
         THEN Raise(Error("Exception", "coordinate variable {variable.name} must not be empty", {}))
         ELSE LET shape == get_variable_shape(self_coords, self_data, variable, bare)
              IN  IF IsOk(shape) THEN Ok(NpFull(shape.val, variable.fill, variable.dtype))
                  ELSE Raise(shape.err)
    ELSE IF variable.input.name \notin DOMAIN raw_dataset
         THEN Raise(Error("KeyError", "no such field", {variable.input.name}))
         ELSE IF ~converts
         THEN Raise(Error("ConversionError", "conversion failed", {}))
         ELSE Ok(raw_dataset[variable.input.name])

\* extract_data skipping a derived coordinate with a warning, as its TODO
\* plans, and giving it empty data
Mut_extract_data_skips(self_coords, self_data, variable, raw_dataset, converts, bare) ==
    IF is_predefined(variable)
    THEN Ok(NpArray(self_data[variable.name], variable.dtype))
    ELSE IF is_derived(variable)
    THEN IF is_coordinate(variable)
         THEN Ok(NpFull(<<0>>, variable.fill, variable.dtype))
         ELSE LET shape == get_variable_shape(self_coords, self_data, variable, bare)
              IN  IF IsOk(shape) THEN Ok(NpFull(shape.val, variable.fill, variable.dtype))
                  ELSE Raise(shape.err)
    ELSE IF variable.input.name \notin DOMAIN raw_dataset
         THEN Raise(Error("KeyError", "no such field", {variable.input.name}))
         ELSE IF ~converts
         THEN Raise(Error("ConversionError", "conversion failed", {}))
         ELSE Ok(ConverterRun(raw_dataset[variable.input.name], variable.input.units, variable.units))

\* the new variable.data, or the exception; converts = the converter succeeds
extract_data(self_coords, self_data, variable, raw_dataset, converts, bare) ==
    IF is_predefined(variable)
    THEN Ok(NpArray(self_data[variable.name], variable.dtype))
    ELSE IF is_derived(variable)
    THEN IF is_coordinate(variable)
         THEN Raise(Error("Exception", "coordinate variable {variable.name} must not be empty", {}))
         ELSE LET shape == get_variable_shape(self_coords, self_data, variable, bare)
              IN  IF IsOk(shape) THEN Ok(NpFull(shape.val, variable.fill, variable.dtype))
                  ELSE Raise(shape.err)
    ELSE IF has_input(variable)
    THEN IF variable.input.name \notin DOMAIN raw_dataset
         THEN Raise(Error("KeyError", "no such field", {variable.input.name}))
         ELSE IF ~converts
         THEN Raise(Error("ConversionError", "conversion failed", {}))
         ELSE Ok(ConverterRun(raw_dataset[variable.input.name], variable.input.units, variable.units))
    ELSE Ok(self_data[variable.name])

(* add_input_files_attr *)

\* input_files: None, or a list of file names
NoFiles == [k |-> "null", files |-> <<>>]

Files(fs) == [k |-> "list", files |-> fs]

FileNames == {<<"a">>, <<"b">>}

FileLists == {NoFiles} \cup {Files(fs) : fs \in UNION {[1..k -> FileNames] : k \in 0..MaxFiles}}

\* sep.join(strings)
RECURSIVE Join(_, _)
Join(sep, strings) ==
    IF strings = <<>> THEN <<>>
    ELSE IF Len(strings) = 1 THEN Head(strings)
    ELSE Head(strings) \o sep \o Join(sep, Tail(strings))

\* the new self.attrs
add_input_files_attr(self_attrs, input_files) ==
    IF input_files.k = "null" THEN self_attrs
    ELSE LET _input_files == Join(<<",", " ">>, input_files.files)
         IN  Put(self_attrs, "input_files", AttributeDefinition("input_files", Str(_input_files)))

(* to_dict *)

\* VariableDefinition.to_dict: the declared dims, no data, the attributes
VariableToDict(var) == [dims |-> var.dims, data |-> <<>>, attrs |-> [units |-> var.units]]

\* to_dict emitting the coordinates among the data variables as well
Mut_to_dict(self_attrs, self_dims, self_coords, self_vars) ==
    [coords |-> [c \in DOMAIN self_coords |-> VariableToDict(self_coords[c])],
     attrs |-> [n \in DOMAIN self_attrs |-> self_attrs[n].value],
     dims |-> self_dims,
     data_vars |-> [v \in DOMAIN self_vars \cup DOMAIN self_coords |->
                        VariableToDict(get_variable(self_vars, self_coords, v))]]

to_dict(self_attrs, self_dims, self_coords, self_vars) ==
    [coords |-> [c \in DOMAIN self_coords |-> VariableToDict(self_coords[c])],
     attrs |-> [n \in DOMAIN self_attrs |-> self_attrs[n].value],
     dims |-> self_dims,
     data_vars |-> [v \in DOMAIN self_vars |-> VariableToDict(self_vars[v])]]

----------------------------------------------------------------------------
(* Storage.uploadable_dir (src/tsdat/io/base.py) *)

\* the paths a caller may write under the temporary directory
UploadPaths == {<<"f">>, <<"d">>, <<"d", "g">>, <<"d", "e">>, <<"d", "e", "h">>}

Entry(path, kind) == [path |-> path, kind |-> kind]

Parent(path) == SubSeq(path, 1, Len(path) - 1)

\* Path.is_file()
is_file(tree, path) == Entry(path, "file") \in tree

is_dir(tree, path) == path = <<>> \/ Entry(path, "dir") \in tree

\* tmp_dirpath.glob("*"): the entries directly under the directory
Mut_Glob(tree) == {e.path : e \in {x \in tree : Len(x.path) = 1}}

\* tmp_dirpath.glob("**/*"): every entry under the directory, at any depth
Glob(tree) == {e.path : e \in tree}

\* no uploadable_dir in progress
NoUpload ==
    [pc |-> "idle", datastream |-> <<>>, exists |-> FALSE, tree |-> {}, todo |-> {},
     handed |-> <<>>, block |-> "none", error |-> "none"]

UploadDatastreams == {S_humboldt \o <<".">> \o S_buoy \o <<".">> \o l : l \in {S_b1, S_c1}}

----------------------------------------------------------------------------
(* The state machine *)

NoCall == [op |-> "none", var |-> ""]

Init ==
    /\ cfg \in Configs
    /\ pc = "parse_attributes"
    /\ attrs = EmptyMap
    /\ datastream = Null
    /\ dims = <<>>
    /\ vars = EmptyMap
    /\ coords = EmptyMap
    /\ data = EmptyMap
    /\ warns = <<>>
    /\ err = NoErr
    /\ last = NoCall
    /\ steps = <<>>
    /\ upload = NoUpload

\* an exception leaves __init__: no instance is returned
Raised(e) ==
    /\ pc' = "raised"
    /\ err' = e

ParseAttributes ==
    /\ pc = "parse_attributes"
    /\ LET r == _parse_attributes(cfg, cfg.pipeline_type)
       IN  IF IsOk(r)
           THEN /\ attrs' = r.val
                /\ pc' = "add_autogenerated_attributes"
                /\ steps' = Append(steps, "parse_attributes")
                /\ UNCHANGED err
           ELSE /\ Raised(r.err)
                /\ UNCHANGED <<attrs, steps>>
    /\ UNCHANGED <<upload, cfg, datastream, dims, vars, coords, data, warns, last>>

AddAutogeneratedAttributes ==
    /\ pc = "add_autogenerated_attributes"
    /\ LET r == _add_autogenerated_attributes(attrs)
       IN  IF IsOk(r)
           THEN /\ attrs' = r.val
                /\ datastream' = r.val["datastream"].value
                /\ pc' = "parse_dimensions"
                /\ steps' = Append(steps, "add_autogenerated_attributes")
                /\ UNCHANGED err
           ELSE /\ Raised(r.err)
                /\ UNCHANGED <<attrs, datastream, steps>>
    /\ UNCHANGED <<upload, cfg, dims, vars, coords, data, warns, last>>

ParseDimensions ==
    /\ pc = "parse_dimensions"
    /\ LET r == _parse_dimensions(cfg)
       IN  IF IsOk(r)
           THEN /\ dims' = r.val
                /\ pc' = "parse_variables"
                /\ steps' = Append(steps, "parse_dimensions")
                /\ UNCHANGED err
           ELSE /\ Raised(r.err)
                /\ UNCHANGED <<dims, steps>>
    /\ UNCHANGED <<upload, cfg, attrs, datastream, vars, coords, data, warns, last>>

\* bad: the first declaration, in the map's order, that names an undeclared dim
ParseVariables ==
    /\ pc = "parse_variables"
    /\ \E bad \in VarNames :
        /\ cfg.vars.present /\ UndeclaredDimVars(cfg.vars.decl, dims) # {}
              => bad \in UndeclaredDimVars(cfg.vars.decl, dims)
        /\ LET r == _parse_variables(cfg, dims, bad)
           IN  IF IsOk(r)
               THEN /\ vars' = r.val
                    /\ data' = [v \in DOMAIN r.val |-> InitialData(cfg.vars.decl[v])]
                    /\ pc' = "parse_coordinates"
                    /\ steps' = Append(steps, "parse_variables")
                    /\ UNCHANGED err
               ELSE /\ Raised(r.err)
                    /\ UNCHANGED <<vars, data, steps>>
    /\ UNCHANGED <<upload, cfg, attrs, datastream, dims, coords, warns, last>>

ParseCoordinates ==
    /\ pc = "parse_coordinates"
    /\ coords' = _parse_coordinates_coords(vars)
    /\ vars' = _parse_coordinates_vars(vars)
    /\ pc' = "validate"
    /\ steps' = Append(steps, "parse_coordinates")
    /\ UNCHANGED <<upload, cfg, attrs, datastream, dims, data, warns, err, last>>

Validate ==
    /\ pc = "validate"
    /\ LET r == _validate_dataset_definition(attrs, dims, coords)
       IN  /\ warns' = warns \o r.warns
           /\ IF r.err = NoErr
              THEN /\ pc' = "done"
                   /\ steps' = Append(steps, "validate")
                   /\ UNCHANGED err
              ELSE /\ Raised(r.err)
                   /\ UNCHANGED steps
    /\ UNCHANGED <<upload, cfg, attrs, datastream, dims, vars, coords, data, last>>

\* extract_data storing into a data attribute that all the variables share
Mut_ExtractData(name, raw_dataset, converts, bare) ==
    /\ pc = "done"
    /\ name \in DOMAIN vars \cup DOMAIN coords
    /\ LET variable == get_variable(vars, coords, name)
           r == extract_data(coords, data, variable, raw_dataset, converts, bare)
       IN  /\ err' = r.err
           /\ data' = IF IsOk(r) THEN [v \in DOMAIN data |-> r.val] ELSE data
    /\ last' = [op |-> "extract_data", var |-> name]
    /\ UNCHANGED <<upload, cfg, pc, attrs, datastream, dims, vars, coords, warns, steps>>

\* definition.extract_data(definition.get_variable(name), raw_dataset)
ExtractData(name, raw_dataset, converts, bare) ==
    /\ pc = "done"
    /\ name \in DOMAIN vars \cup DOMAIN coords
    /\ LET variable == get_variable(vars, coords, name)
           r == extract_data(coords, data, variable, raw_dataset, converts, bare)
       IN  /\ err' = r.err
           /\ data' = IF IsOk(r) THEN [data EXCEPT ![name] = r.val] ELSE data
    /\ last' = [op |-> "extract_data", var |-> name]
    /\ UNCHANGED <<upload, cfg, pc, attrs, datastream, dims, vars, coords, warns, steps>>

\* definition.add_input_files_attr(input_files)
AddInputFilesAttr(input_files) ==
    /\ pc = "done"
    /\ attrs' = add_input_files_attr(attrs, input_files)
    /\ err' = NoErr
    /\ last' = [op |-> "add_input_files_attr", var |-> ""]
    /\ UNCHANGED <<upload, cfg, pc, datastream, dims, vars, coords, data, warns, steps>>

\* definition.to_dict(): the dictionary goes to the caller, the instance stays
ToDict ==
    /\ pc = "done"
    /\ err' = NoErr
    /\ last' = [op |-> "to_dict", var |-> ""]
    /\ UNCHANGED <<upload, cfg, pc, attrs, datastream, dims, vars, coords, data, warns, steps>>

\* The validation cascade on its own: an instance as the constructor builds it
\* for the reference configuration, holding any data level
LevelChars == {"a", "b", "c", "0", "1", "."}

DataLevels == {Null} \cup {Str(s) : s \in UNION {[1..k -> LevelChars] : k \in 0..MaxLevelLen}}

InitDataLevel ==
    /\ cfg = Config(BaseAttrs, "Ingest", MinimalStructure)
    /\ pc = "validate"
    /\ \E level \in DataLevels :
        attrs = Put(_add_autogenerated_attributes(_parse_attributes(cfg, cfg.pipeline_type).val).val,
                    "data_level", AttributeDefinition("data_level", level))
    /\ datastream = attrs["datastream"].value
    /\ dims = _parse_dimensions(cfg).val
    /\ coords = _parse_coordinates_coords(_parse_variables(cfg, dims, "time").val)
    /\ vars = _parse_coordinates_vars(_parse_variables(cfg, dims, "time").val)
    /\ data = [v \in DOMAIN cfg.vars.decl |-> InitialData(cfg.vars.decl[v])]
    /\ warns = <<>>
    /\ err = NoErr
    /\ last = NoCall
    /\ steps = <<"parse_attributes", "add_autogenerated_attributes", "parse_dimensions",
                 "parse_variables", "parse_coordinates">>
    /\ upload = NoUpload

NextDataLevel == Validate

SpecDataLevel == InitDataLevel /\ [][NextDataLevel]_vars_all

Next ==
    \/ ParseAttributes
    \/ AddAutogeneratedAttributes
    \/ ParseDimensions
    \/ ParseVariables
    \/ ParseCoordinates
    \/ Validate
    \/ \E name \in VarNames, raw_dataset \in RawDatasets, converts \in BOOLEAN,
          bare \in {"raises", "empty"} :
            ExtractData(name, raw_dataset, converts, bare)

Spec == Init /\ [][Next]_vars_all

\* The life of an instance after construction: the configurations that
\* construct, and every call on the instance
LifecycleConfigs ==
    {Config(BaseAttrs, "Ingest", <<BaseDims, VarsBlock(BaseDecl)>>),
     Config(BaseAttrs, "Ingest", TwoDerived),
     Config(Override({"qualifier", "temporal"}, [n \in {"qualifier", "temporal"} |-> Str(S_q)]),
            "VAP", MinimalStructure)}

InitLifecycle ==
    /\ cfg \in LifecycleConfigs
    /\ pc = "parse_attributes"
    /\ attrs = EmptyMap
    /\ datastream = Null
    /\ dims = <<>>
    /\ vars = EmptyMap
    /\ coords = EmptyMap
    /\ data = EmptyMap
    /\ warns = <<>>
    /\ err = NoErr
    /\ last = NoCall
    /\ steps = <<>>
    /\ upload = NoUpload

NextLifecycle ==
    \/ ParseAttributes
    \/ AddAutogeneratedAttributes
    \/ ParseDimensions
    \/ ParseVariables
    \/ ParseCoordinates
    \/ Validate
    \/ \E name \in VarNames, raw_dataset \in RawDatasets, converts \in BOOLEAN,
          bare \in {"raises", "empty"} :
            ExtractData(name, raw_dataset, converts, bare)
    \/ \E input_files \in FileLists : AddInputFilesAttr(input_files)
    \/ ToDict

SpecLifecycle == InitLifecycle /\ [][NextLifecycle]_vars_all

\* Storage.uploadable_dir(datastream) used in a with statement: the directory
\* is created, the caller's block writes under it and exits, the files are
\* handed over one by one, the directory is removed
InitUpload ==
    /\ cfg = Config(BaseAttrs, "Ingest", MinimalStructure)
    /\ pc = "parse_attributes"
    /\ attrs = EmptyMap
    /\ datastream = Null
    /\ dims = <<>>
    /\ vars = EmptyMap
    /\ coords = EmptyMap
    /\ data = EmptyMap
    /\ warns = <<>>
    /\ err = NoErr
    /\ last = NoCall
    /\ steps = <<>>
    /\ upload = NoUpload

Definition == <<cfg, pc, attrs, datastream, dims, vars, coords, data, warns, err, last, steps>>

\* tmp_dir = tempfile.TemporaryDirectory(); yield tmp_dirpath
UploadEnter(ds) ==
    /\ upload.pc = "idle"
    /\ upload' = [upload EXCEPT !.pc = "block", !.datastream = ds, !.exists = TRUE]
    /\ UNCHANGED Definition

\* the caller's block creates a file or a directory under the directory
BlockWrite(path, kind) ==
    /\ upload.pc = "block"
    /\ \A e \in upload.tree : e.path # path
    /\ is_dir(upload.tree, Parent(path))
    /\ upload' = [upload EXCEPT !.tree = @ \cup {Entry(path, kind)}]
    /\ UNCHANGED Definition

\* the block ends: on an exception the except clause raises it again, otherwise
\* the else clause starts the glob
BlockExit(raises) ==
    /\ upload.pc = "block"
    /\ upload' = IF raises
                  THEN [upload EXCEPT !.pc = "finally", !.block = "error", !.error = "BlockError"]
                  ELSE [upload EXCEPT !.pc = "saving", !.block = "normal", !.todo = Glob(upload.tree)]
    /\ UNCHANGED Definition

\* one turn of the for loop, the glob yielding path; save_ancillary_file may raise
Visit(path, raises) ==
    /\ upload.pc = "saving"
    /\ path \in upload.todo
    /\ upload' =
        IF ~is_file(upload.tree, path)
        THEN [upload EXCEPT !.todo = @ \ {path}]
        ELSE IF raises
        THEN [upload EXCEPT !.todo = @ \ {path}, !.pc = "finally", !.error = "SaveError",
                            !.handed = Append(@, [path |-> path, datastream |-> upload.datastream])]
        ELSE [upload EXCEPT !.todo = @ \ {path},
                            !.handed = Append(@, [path |-> path, datastream |-> upload.datastream])]
    /\ UNCHANGED Definition

\* the glob is exhausted
LoopEnd ==
    /\ upload.pc = "saving"
    /\ upload.todo = {}
    /\ upload' = [upload EXCEPT !.pc = "finally"]
    /\ UNCHANGED Definition

\* finally: tmp_dir.cleanup(); the pending exception, if any, leaves the with
Cleanup ==
    /\ upload.pc = "finally"
    /\ upload' = [upload EXCEPT !.pc = "exited", !.exists = FALSE]
    /\ UNCHANGED Definition

NextUpload ==
    \/ \E ds \in UploadDatastreams : UploadEnter(ds)
    \/ \E path \in UploadPaths, kind \in {"file", "dir"} : BlockWrite(path, kind)
    \/ \E raises \in BOOLEAN : BlockExit(raises)
    \/ \E path \in UploadPaths, raises \in BOOLEAN : Visit(path, raises)
    \/ LoopEnd
    \/ Cleanup

SpecUpload == InitUpload /\ [][NextUpload]_vars_all

(* The fields of the instance: what __init__ and the methods it calls assign *)
(* to self                                                                   *)

\* __init__ assigning self.data_level beside self.datastream
Mut_FieldsSetBy(step) ==
    CASE step = "parse_attributes" -> {"attrs"}
      [] step = "add_autogenerated_attributes" -> {"history", "datastream", "data_level"}
      [] step = "parse_dimensions" -> {"dims"}
      [] step = "parse_variables" -> {"vars"}
      [] step = "parse_coordinates" -> {"coords", "vars"}
      [] OTHER -> {}

\* the names a phase of __init__ assigns to self
FieldsSetBy(step) ==
    CASE step = "parse_attributes" -> {"attrs"}
      [] step = "add_autogenerated_attributes" -> {"history", "datastream"}
      [] step = "parse_dimensions" -> {"dims"}
      [] step = "parse_variables" -> {"vars"}
      [] step = "parse_coordinates" -> {"coords", "vars"}
      [] OTHER -> {}

InstanceFields == UNION {FieldsSetBy(steps[i]) : i \in 1..Len(steps)}

\* definition.<name> for the two names the datastream is known by
ReadField(name) ==
    IF name \notin InstanceFields
    THEN Raise(Error("AttributeError", "object has no attribute", {name}))
    ELSE IF name = "datastream" THEN Ok(datastream)
    ELSE Ok(attrs[name].value)

----------------------------------------------------------------------------
(* Properties *)

Constructed == pc = "done"

\* the text of a datastream component of the instance, "" when it is not there
Component(n) == IF n \in DOMAIN attrs THEN Format(attrs[n].value) ELSE <<>>

WellFormedDataLevel(s) ==
    /\ Len(s) = 2
    /\ s = S_00 \/ (s[1] \in Alpha /\ s[2] \in Numeric)

\* C1: fail-fast construction. Whenever the constructor has returned an
\* instance, that instance has a time dimension and a time coordinate, every
\* coordinate is dimensioned by itself alone, all nine required attributes
\* are there and non-empty, no datastream component holds a ".", and
\* data_level is two characters, a letter and a digit or "00".
C1_FailFast ==
    Constructed =>
        /\ "time" \in Range(dims)
        /\ "time" \in DOMAIN coords
        /\ \A c \in DOMAIN coords : coords[c].dims = <<c>>
        /\ \A i \in 1..Len(RequiredAttrs) :
            /\ RequiredAttrs[i] \in DOMAIN attrs
            /\ attrs[RequiredAttrs[i]].value.k = "str"
            /\ attrs[RequiredAttrs[i]].value.s # <<>>
        /\ \A i \in 1..Len(DatastreamComponents) : ~HasDot(Component(DatastreamComponents[i]))
        /\ WellFormedDataLevel(attrs["data_level"].value.s)

\* an instance was returned for a configuration with a qualifier and a
\* configured datastream
C1_Witness ==
    /\ Constructed
    /\ "qualifier" \in DOMAIN cfg.attrs
    /\ DOMAIN coords = {"time"}

\* C4: pipeline_type "Ingest" gives data_level "b1", "VAP" gives "c1"; any
\* other value, None and "" included, raises DefinitionError before a
\* dimension or a variable is parsed.
C4_PipelineTypeMapping ==
    /\ Constructed /\ cfg.pipeline_type = "Ingest" => attrs["data_level"].value = Str(S_b1)
    /\ Constructed /\ cfg.pipeline_type = "VAP" => attrs["data_level"].value = Str(S_c1)
    /\ cfg.pipeline_type \notin {"Ingest", "VAP"} /\ pc # "parse_attributes" =>
        /\ pc = "raised"
        /\ err.kind = "DefinitionError"
        /\ steps = <<>>
        /\ dims = <<>> /\ vars = EmptyMap /\ coords = EmptyMap

\* the constructor raised on pipeline_type None
C4_Witness ==
    /\ pc = "raised"
    /\ cfg.pipeline_type = NonePipeline
    /\ err.kind = "DefinitionError"

\* C5: after construction the datastream attribute is
\* location_id "." instrument_id qualifier temporal "." data_level, with ""
\* for a qualifier or temporal that is not there, whatever datastream the
\* configuration gave; humboldt, buoy and b1 give "humboldt.buoy.b1".
C5_DatastreamDerivation ==
    Constructed =>
        LET derived == Component("location_id") \o <<".">> \o Component("instrument_id")
                        \o Component("qualifier") \o Component("temporal")
                        \o <<".">> \o Component("data_level")
        IN  /\ attrs["datastream"].value = Str(derived)
            /\ datastream = Str(derived)
            /\ (/\ cfg.attrs["location_id"] = Str(S_humboldt)
                /\ cfg.attrs["instrument_id"] = Str(S_buoy)
                /\ DOMAIN cfg.attrs \cap {"qualifier", "temporal"} = {}
                /\ cfg.pipeline_type = "Ingest")
               => derived = S_humboldt \o <<".">> \o S_buoy \o <<".", "b", "1">>

\* an instance was returned for a configuration that gave another datastream
C5_Witness ==
    /\ Constructed
    /\ "datastream" \in DOMAIN cfg.attrs
    /\ cfg.attrs["datastream"] # attrs["datastream"].value
    /\ attrs["datastream"].value = Str(S_humboldt \o <<".">> \o S_buoy \o <<".", "b", "1">>)

\* C7: after construction a declared variable is a coordinate exactly when it
\* has one dim, its own name, and a data variable otherwise; coords and vars
\* are disjoint and together hold the declared variables, so
\* get_variable_names lists no coordinate and get_variable finds every one.
C7_CoordinatePartition ==
    Constructed =>
        LET decl == cfg.vars.decl
        IN  /\ \A v \in DOMAIN decl :
                /\ v \in DOMAIN coords <=> (Len(decl[v].dims) = 1 /\ decl[v].dims[1] = v)
                /\ v \in DOMAIN vars <=> v \notin DOMAIN coords
                /\ get_variable(vars, coords, v) = VariableDefinition(v, decl[v])
            /\ DOMAIN coords \cap DOMAIN vars = {}
            /\ DOMAIN coords \cup DOMAIN vars = DOMAIN decl
            /\ get_variable_names(vars) \cap DOMAIN coords = {}

\* an instance with a coordinate and a data variable named like a dimension
C7_Witness ==
    /\ Constructed
    /\ "time" \in DOMAIN coords
    /\ "depth" \in DOMAIN vars
    /\ "temp" \in DOMAIN vars

\* the declaration of a variable of the instance
Declared(name) == cfg.vars.decl[name]

DeclaredCoordinate(name) == name \in DOMAIN cfg.vars.decl /\ Declared(name).dims = <<name>>

C9_FailuresPropagate ==
    [][pc = "done" =>
       \A name \in VarNames, raw_dataset \in RawDatasets, converts \in BOOLEAN,
          bare \in {"raises", "empty"} :
        last'.var = name /\ ExtractData(name, raw_dataset, converts, bare) =>
            /\ (\/ Declared(name).prov = "Derived" /\ DeclaredCoordinate(name)
                \/ Declared(name).prov = "InputMapped" /\ InputNameOf(name) \notin DOMAIN raw_dataset
                \/ Declared(name).prov = "InputMapped" /\ ~converts
                \/ /\ Declared(name).prov = "Derived"
                   /\ \E i \in 1..Len(Declared(name).dims) :
                        ~DeclaredCoordinate(Declared(name).dims[i]))
               => err' # NoErr
            /\ err' # NoErr => data' = data
      ]_vars_all

\* extract_data raised for a derived coordinate
C9_Witness ==
    /\ Constructed
    /\ last = [op |-> "extract_data", var |-> "time"]
    /\ Declared("time").prov = "Derived"
    /\ DeclaredCoordinate("time")
    /\ err.kind = "Exception"

\* C10: an error extract_data raises for a variable carries that variable's
\* name.
C10_ErrorNamesVariable ==
    Constructed /\ last.op = "extract_data" /\ err # NoErr => last.var \in err.names

Finished == pc \in {"done", "raised"}

\* the configuration declares the time dimension and the time coordinate
HasTime ==
    /\ "time" \in Range(cfg.dims.names)
    /\ "time" \in DOMAIN cfg.vars.decl
    /\ Declared("time").dims = <<"time">>

\* C2: a schema without a time dimension or without a time coordinate
\* variable makes the constructor raise DefinitionError; one with both, and
\* nothing else wrong, constructs.
C2_RequiredTime ==
    (/\ Finished
     /\ cfg.attrs = BaseAttrs /\ cfg.pipeline_type = "Ingest"
     /\ cfg.dims.present /\ cfg.vars.present)
    => IF HasTime
       THEN UndeclaredDimVars(cfg.vars.decl, cfg.dims.names) = {} => pc = "done"
       ELSE pc = "raised" /\ err.kind = "DefinitionError"

\* the configuration gives every attribute of BaseAttrs but a, and gives a
\* not at all, as None or as ""
OnlyRemoved(a) ==
    /\ a \notin DOMAIN cfg.attrs \/ ~Truthy(cfg.attrs[a])
    /\ DOMAIN cfg.attrs \subseteq DOMAIN BaseAttrs
    /\ \A n \in (DOMAIN BaseAttrs) \ {a} : n \in DOMAIN cfg.attrs /\ cfg.attrs[n] = BaseAttrs[n]

\* C3: with any one of the nine required attributes removed from a valid
\* configuration (left out, None or "") the constructor raises
\* DefinitionError; with it back the constructor returns.
C3_RequiredAttributes ==
    (Finished /\ <<cfg.dims, cfg.vars>> = MinimalStructure /\ cfg.pipeline_type = "Ingest")
    => /\ cfg.attrs = BaseAttrs => pc = "done"
       /\ \A i \in 1..Len(RequiredAttrs) :
            OnlyRemoved(RequiredAttrs[i]) => pc = "raised" /\ err.kind = "DefinitionError"

\* C6: the format check passes data_level "b1", fails "1b" on the first
\* character and "abc" on the length, and passes "00" with a warning.
C6_DataLevelFormat ==
    LET level == attrs["data_level"].value
    IN  Finished =>
            /\ level = Str(S_b1) => pc = "done" /\ warns = <<>>
            /\ level = Str(S_1b) =>
                pc = "raised" /\ err.msg = "Data level first character must be a letter"
            /\ level = Str(S_abc) =>
                pc = "raised" /\ err.msg = "Data level must consist of two characters"
            /\ level = Str(S_00) =>
                pc = "done" /\ warns = <<Warning("Data level chosen is 00", "data_level")>>

\* validation passed data_level "00" and warned
C6_Witness ==
    /\ pc = "done"
    /\ attrs["data_level"].value = Str(S_00)
    /\ Len(warns) = 1

\* the variable's data was stored by extract_data: it is an array, no longer
\* the literal of the declaration or nothing
Materialized(name) == data[name].dtype \notin {"unset", "list"}

\* the data after extract_data(name) on the data d, whether it returns or raises
After(d, name, bare) ==
    LET r == extract_data(coords, d, get_variable(vars, coords, name), EmptyMap, TRUE, bare)
    IN  IF IsOk(r) THEN [d EXCEPT ![name] = r.val] ELSE d

DerivedVars == {v \in DOMAIN vars : vars[v].prov = "Derived"}

C11_WitnessBoth ==
    /\ Constructed
    /\ DerivedVars = {"depth", "temp"}
    /\ Materialized("depth") /\ Materialized("temp")

\* C12: a call of extract_data, whether it returns or raises, changes the
\* data of the variable passed in and nothing else: the data of every other
\* variable and coordinate, attrs, dims, the coordinates, the data variables
\* and the datastream field stay as they were.
C12_ExtractDataFrame ==
    [][pc = "done" /\ last'.op = "extract_data" =>
        /\ DOMAIN data' = DOMAIN data
        /\ \A v \in DOMAIN data : v # last'.var => data'[v] = data[v]
        /\ attrs' = attrs
        /\ dims' = dims
        /\ coords' = coords
        /\ vars' = vars
        /\ datastream' = datastream
        /\ pc' = pc /\ warns' = warns
      ]_vars_all

\* the time coordinate was extracted again from a longer input: the derived
\* variable shaped by the shorter one still holds what it held
C12_Witness ==
    /\ Constructed
    /\ last = [op |-> "extract_data", var |-> "time"]
    /\ err = NoErr
    /\ "temp" \in DOMAIN vars
    /\ data["time"].shape = <<2>>
    /\ Materialized("temp")
    /\ data["temp"].shape = <<1, 2>>

\* C13: add_input_files_attr given None or an empty list leaves the
\* attributes as they were; given a non-empty list it puts the one attribute
\* input_files, the names joined by commas in list order, and changes
\* nothing else.
C13_AddInputFiles ==
    [][\A input_files \in FileLists :
        last'.op = "add_input_files_attr" /\ AddInputFilesAttr(input_files) =>
            /\ input_files.k = "null" \/ input_files.files = <<>> => attrs' = attrs
            /\ input_files.k = "list" /\ input_files.files # <<>> =>
                /\ DOMAIN attrs' = DOMAIN attrs \cup {"input_files"}
                /\ \A n \in DOMAIN attrs : n # "input_files" => attrs'[n] = attrs[n]
                /\ attrs'["input_files"].value.s \in
                    {Join(<<",">>, input_files.files), Join(<<",", " ">>, input_files.files)}
            /\ UNCHANGED <<datastream, dims, vars, coords, data>>
      ]_vars_all

\* the names a dictionary of to_dict lists
EmittedNames(d) == <<d.dims, DOMAIN d.coords, DOMAIN d.data_vars, DOMAIN d.attrs>>

\* C14: to_dict of a constructed definition lists the declared dimensions in
\* declaration order, the coordinate variables under coords, the other
\* variables under data_vars, and every global attribute with its value,
\* history, datastream and data_level among them; extract_data changes none
\* of the names to_dict lists, and to_dict leaves the definition as it was.
C14_SkeletonEmission ==
    [][pc = "done" =>
        LET d == to_dict(attrs, dims, coords, vars)
            decl == cfg.vars.decl
        IN  /\ d.dims = cfg.dims.names
            /\ DOMAIN d.coords = {v \in DOMAIN decl : DeclaredCoordinate(v)}
            /\ DOMAIN d.data_vars = {v \in DOMAIN decl : ~DeclaredCoordinate(v)}
            /\ \A v \in DOMAIN decl :
                (IF DeclaredCoordinate(v) THEN d.coords[v] ELSE d.data_vars[v]).dims = decl[v].dims
            /\ DOMAIN d.attrs = DOMAIN attrs
            /\ \A n \in DOMAIN attrs : d.attrs[n] = attrs[n].value
            /\ DOMAIN cfg.attrs \cup {"history", "datastream", "data_level"} \subseteq DOMAIN d.attrs
            /\ d.attrs["history"] = Str(S_history)
            /\ d.attrs["datastream"] = datastream
            /\ d.attrs["data_level"] = (IF cfg.pipeline_type = "Ingest" THEN Str(S_b1) ELSE Str(S_c1))
            /\ last'.op = "extract_data" =>
                EmittedNames(to_dict(attrs', dims', coords', vars')) = EmittedNames(d)
            /\ last'.op = "to_dict" =>
                UNCHANGED <<attrs, datastream, dims, vars, coords, data>>
      ]_vars_all

\* to_dict was called on a definition with a materialized variable and the
\* input_files attribute
C14_Witness ==
    /\ Constructed
    /\ last.op = "to_dict"
    /\ "input_files" \in DOMAIN attrs
    /\ DOMAIN coords = {"time", "depth"}
    /\ "temp" \in DOMAIN vars /\ Materialized("temp")

\* the regular files under the temporary directory
UploadedFiles == {e.path : e \in {x \in upload.tree : x.kind = "file"}}

\* C15: uploadable_dir hands to save_ancillary_file only regular files of the
\* directory, each at most once and with the datastream it was given; when
\* the block exited normally and every save returned, each regular file at
\* any depth was handed exactly once; when the block exited with an error
\* nothing is handed and that error leaves the with statement; and once the
\* with statement is left, after the block, after the saves or after a save
\* that raised, the directory is removed.
C15_ScopedUpload ==
    /\ \A i \in 1..Len(upload.handed) :
        /\ upload.handed[i].path \in UploadedFiles
        /\ upload.handed[i].datastream = upload.datastream
        /\ \A j \in 1..Len(upload.handed) : upload.handed[i].path = upload.handed[j].path => i = j
    /\ upload.pc = "exited" /\ upload.error = "none" =>
        {upload.handed[i].path : i \in 1..Len(upload.handed)} = UploadedFiles
    /\ upload.block = "error" =>
        /\ upload.handed = <<>>
        /\ upload.error = "BlockError"
    /\ upload.pc = "exited" => ~upload.exists
    /\ upload.pc \in {"block", "saving", "finally"} => upload.exists

\* the with statement was left normally with files at three depths handed
\* over and two directories passed by
C15_Witness ==
    /\ upload.pc = "exited"
    /\ upload.error = "none"
    /\ Len(upload.handed) = 3
    /\ Entry(<<"d", "e">>, "dir") \in upload.tree
    /\ ~upload.exists

\* a save raised after another file was handed over, and the directory is gone
C15_WitnessSaveRaised ==
    /\ upload.pc = "exited"
    /\ upload.error = "SaveError"
    /\ Len(upload.handed) = 2
    /\ ~upload.exists

\* C16: a configuration without the dimensions block or without the
\* variables block makes the constructor raise DefinitionError, and no
\* instance is returned.
C16_ShapeErrors ==
    (/\ Finished
     /\ cfg.pipeline_type = "Ingest" /\ cfg.attrs = BaseAttrs
     /\ ~cfg.dims.present \/ ~cfg.vars.present)
    => pc = "raised" /\ err.kind = "DefinitionError"

\* the declared dimensions without a coordinate variable of their name
BareDims == {d \in Range(cfg.dims.names) : ~DeclaredCoordinate(d)}

\* the configuration meets every hard invariant
MeetsHardInvariants ==
    /\ cfg.attrs \in FewAttrConfigs
    /\ cfg.pipeline_type \in {"Ingest", "VAP"}
    /\ cfg.dims.present /\ cfg.vars.present
    /\ HasTime
    /\ UndeclaredDimVars(cfg.vars.decl, cfg.dims.names) = {}

\* C17: a configuration that meets every hard invariant and declares
\* dimensions without a coordinate variable constructs: the constructor
\* returns, with one warning for each such dimension and no other.
C17_MissingCoordinateAdvisory ==
    Finished /\ MeetsHardInvariants =>
        /\ pc = "done"
        /\ Len(warns) = Cardinality(BareDims)
        /\ \A d \in BareDims :
            Cardinality({i \in 1..Len(warns) :
                warns[i] = Warning("no associated coordinate variable", d)}) = 1

\* an instance was returned with the depth dimension lacking its coordinate
C17_Witness ==
    /\ Constructed
    /\ MeetsHardInvariants
    /\ BareDims = {"depth"}
    /\ Len(warns) = 1
    /\ last = NoCall

\* C18: after construction datastream and data_level are fields of the
\* instance, each equal to the value of the attribute of that name.
C18_PublicFields ==
    Constructed =>
        /\ ReadField("datastream") = Ok(attrs["datastream"].value)
        /\ ReadField("data_level") = Ok(attrs["data_level"].value)

\* C18, amended: after construction datastream is a field of the instance,
\* equal to the value of the datastream attribute; data_level is not a field,
\* reading it raises AttributeError, and its value is the one of the
\* data_level attribute only.
C18_DatastreamField ==
    Constructed =>
        /\ ReadField("datastream") = Ok(attrs["datastream"].value)
        /\ ReadField("data_level").err.kind = "AttributeError"
        /\ "data_level" \in DOMAIN attrs

\* an instance was returned whose datastream the constructor derived, with a
\* qualifier in it
C18_Witness ==
    /\ Constructed
    /\ last = NoCall
    /\ "qualifier" \in DOMAIN cfg.attrs
    /\ ReadField("datastream") = Ok(Str(S_humboldt \o <<".">> \o S_buoy \o S_q \o S_q \o <<".">> \o S_c1))

\* the hard invariants a configuration violates, by the check that tests them
ViolatesTime == ~HasTime

ViolatesRequired ==
    \E n \in {"title", "description", "conventions", "code_url", "location_id", "instrument_id"} :
        n \notin DOMAIN cfg.attrs \/ ~Truthy(cfg.attrs[n])

ViolatesComponents ==
    \E n \in {"location_id", "instrument_id", "qualifier", "temporal"} :
        n \in DOMAIN cfg.attrs /\ HasDot(cfg.attrs[n].s)

\* C19: the checks run in the order time dimension and coordinate, dimension
\* completeness (a warning), coordinate self-dimension, required attributes,
\* datastream components; the error the constructor raises for a
\* configuration that violates several hard invariants is the one of the
\* earliest violated check, so a schema without the time dimension and
\* without location_id reports the time violation.
C19_CascadeOrder ==
    (/\ Finished
     /\ cfg.pipeline_type \in {"Ingest", "VAP"}
     /\ cfg.dims.present /\ cfg.vars.present
     /\ UndeclaredDimVars(cfg.vars.decl, cfg.dims.names) = {})
    => IF ViolatesTime
       THEN pc = "raised" /\ err.names = {"time"}
       ELSE IF ViolatesRequired
       THEN pc = "raised" /\ err.msg = "is a required global attribute"
       ELSE IF ViolatesComponents
       THEN pc = "raised" /\ err.msg = "'.' is not an allowed character"
       ELSE pc = "done"

DataLevelMessages ==
    {"Data level must be a string", "Data level must consist of two characters",
     "Data level first character must be a letter", "Data level second character must be a number"}

\* C20: whatever data_level the configuration gives, a constructed instance
\* holds "b1" for pipeline_type "Ingest" and "c1" for "VAP"; the constructor
\* never fails on the length, the letter or the digit of the data level and
\* never warns about "00".
C20_DataLevelOverridden ==
    /\ Constructed =>
        /\ cfg.pipeline_type \in {"Ingest", "VAP"}
        /\ attrs["data_level"].value = (IF cfg.pipeline_type = "Ingest" THEN Str(S_b1) ELSE Str(S_c1))
    /\ err.msg \notin DataLevelMessages
    /\ \A i \in 1..Len(warns) : warns[i] # Warning("Data level chosen is 00", "data_level")

\* an instance was returned for a configuration whose data_level is "00"
C20_Witness ==
    /\ Constructed
    /\ last = NoCall
    /\ "data_level" \in DOMAIN cfg.attrs
    /\ cfg.attrs["data_level"] = Str(S_00)
    /\ attrs["data_level"].value = Str(S_b1)

=============================================================================
